---- MODULE Spec2Model ----
(***************************************************************************)
(* carla::client::RssSensor (LibCarla/source/carla/rss/RssSensor.cpp).     *)
(*                                                                         *)
(* The sensor object (Listen / Stop / TickRssSensor and the four dynamics   *)
(* accessors), the closures it registers on the episode's tick event, and  *)
(* the threads of the tick source that run those closures.  One step of a  *)
(* thread is one statement group of the tick lambda (lines 46-54) or of    *)
(* TickRssSensor (59-115).                                                 *)
(*                                                                         *)
(* RssCheck::checkObjects and the ad_rss value types are not part of the   *)
(* file: checkObjects is an opaque call that either returns a verdict or   *)
(* throws a std::exception, and a default-constructed ProperResponse is    *)
(* the "none" verdict the specification describes.  World and actor        *)
(* accessors (GetWorld, GetActors, Filter, GetTransform) do not fail.      *)
(***************************************************************************)
EXTENDS Integers, Sequences, FiniteSets, TLC

\* ------------------------------------------------------------------ bounds

\* Threads of the tick source that may run tick closures concurrently.
NumThreads == 2
\* Frames the tick source delivers.
MaxFrame == 2
\* Calls of Listen (each brings its own callback).
MaxListens == 3

Threads == 1 .. NumThreads
\* A null pointer.
Null == [null |-> TRUE]
\* The two roles a dynamics profile is kept for.
Roles == {"ego", "other"}
\* The maps of the worlds the client may be connected to.
Maps == {[map |-> "Town01"], [map |-> "Town02"]}

\* ------------------------------------------------------------ value types

\* ::ad_rss::state::LongitudinalResponse and ::ad_rss::state::LateralResponse
RssLongitudinal == {"ad_rss::None", "ad_rss::BrakeMinCorrect", "ad_rss::BrakeMin"}
RssLateral == {"ad_rss::None", "ad_rss::BrakeMin"}
\* carla::sensor::data::LongitudinalResponse and ...::LateralResponse
DataLongitudinal == {"None", "BrakeMinCorrect", "BrakeMin"}
DataLateral == {"None", "BrakeMin"}

\* A default-constructed ::ad_rss::state::ProperResponse: no response asked.
DefaultProperResponse ==
    [longitudinalResponse |-> "ad_rss::None",
     lateralResponseRight |-> "ad_rss::None",
     lateralResponseLeft |-> "ad_rss::None"]

\* A default-constructed AccelerationRestriction or Velocity: zero-valued.
DefaultPhysical == [value |-> 0]

\* Variant: result starts true.
LocalsResultTrue ==
    [result |-> TRUE,
     longitudinalResponse |-> DefaultProperResponse.longitudinalResponse,
     lateralResponseRight |-> DefaultProperResponse.lateralResponseRight,
     lateralResponseLeft |-> DefaultProperResponse.lateralResponseLeft,
     accelerationRestriction |-> DefaultPhysical.value,
     egoVelocity |-> DefaultPhysical.value]

\* The locals of TickRssSensor as declared on lines 61-64: result = false and
\* default-constructed response, accelerationRestriction and egoVelocity.
DefaultLocals ==
    [result |-> FALSE,
     longitudinalResponse |-> DefaultProperResponse.longitudinalResponse,
     lateralResponseRight |-> DefaultProperResponse.lateralResponseRight,
     lateralResponseLeft |-> DefaultProperResponse.lateralResponseLeft,
     accelerationRestriction |-> DefaultPhysical.value,
     egoVelocity |-> DefaultPhysical.value]

\* What a returning checkObjects may leave in result and in its out-parameters.
Verdicts ==
    {[result |-> TRUE, longitudinalResponse |-> "ad_rss::BrakeMin",
      lateralResponseRight |-> "ad_rss::None", lateralResponseLeft |-> "ad_rss::BrakeMin",
      accelerationRestriction |-> 1, egoVelocity |-> 2],
     [result |-> FALSE, longitudinalResponse |-> "ad_rss::BrakeMinCorrect",
      lateralResponseRight |-> "ad_rss::BrakeMin", lateralResponseLeft |-> "ad_rss::None",
      accelerationRestriction |-> 2, egoVelocity |-> 0]}

\* Every value checkObjects can leave in result and in its out-parameters: the
\* 3 x 2 x 2 responses, with either result and a restriction or none.
AllVerdicts ==
    [result : BOOLEAN, longitudinalResponse : RssLongitudinal,
     lateralResponseRight : RssLateral, lateralResponseLeft : RssLateral,
     accelerationRestriction : {0, 1}, egoVelocity : {0}]

\* The exceptions checkObjects may throw.
FaultKinds == {[type |-> "std::exception"]}

\* The ::ad_rss::world::RssDynamics values a caller may pass to a setter.
Profiles == {[dynamics |-> "cautious"], [dynamics |-> "sporty"]}
\* The RssDynamics a newly constructed RssCheck holds for either role.
DefaultDynamics == [dynamics |-> "default"]

\* Line 40: std::make_shared<RssCheck>() in call cb of Listen.  The constructor
\* takes no argument: the new object holds the default profiles.
RssCheck(cb) ==
    [id |-> cb,
     egoVehicleDynamics |-> DefaultDynamics,
     otherVehicleDynamics |-> DefaultDynamics]

\* The Timestamp of the snapshot of frame f.
TickTimestamp(f) == [frame |-> f, elapsed_seconds |-> 10 * f]

\* ------------------------------------------------------------------ state

VARIABLES
    hasParent,        \* GetParent() != nullptr
    ownerHolds,       \* the client still holds a SharedPtr to the sensor
    alive,            \* the sensor object has not been destroyed
    _is_listening,
    _map,
    mRssCheck,
    _processing_lock, \* TRUE while the mutex is locked
    subscriptions,    \* the closures registered on the tick event, by callback
    listenCalls,      \* calls of Listen so far; call n brings callback n
    listenOutcome,    \* how the latest call of Listen ended
    crashed,          \* the process was ended by a null dereference
    accessor,         \* the latest call of a dynamics accessor and what it gave
    configured,       \* per role: the profile last passed to a setter, if any
    nextFrame,        \* the frame of the next tick
    delivered,        \* the latest invocation of a callback: which, for which frame
    pc,               \* per thread: where it is in the lambda / TickRssSensor
    timestamp,        \* per thread: the snapshot's timestamp
    sub,              \* per thread: index of the closure being run
    self,             \* per thread: the lambda holds a locked SharedPtr
    acquired,         \* per thread: try_lock returned true in this call
    unlocks,          \* per thread: calls of unlock in this call
    called,           \* per thread: checkObjects was called in this call
    caught,           \* per thread: the exception e of the handler, if any
    locals,           \* per thread: result, response, restriction, velocity
    data              \* per thread: what TickRssSensor returned

dynamicsVars == <<crashed, accessor, configured>>
sensorVars == <<hasParent, ownerHolds, _is_listening, _map, mRssCheck,
                subscriptions, listenCalls, listenOutcome, dynamicsVars>>
threadVars == <<pc, timestamp, sub, self, acquired, unlocks, called, caught,
                locals, data>>
vars == <<hasParent, ownerHolds, alive, _is_listening, _map, mRssCheck,
          _processing_lock, subscriptions, listenCalls, listenOutcome, crashed,
          accessor, configured, nextFrame, delivered, pc, timestamp, sub, self, acquired, unlocks,
          called, caught, locals, data>>

\* Program points inside TickRssSensor.
InTickRssSensor == {"try_lock", "checkObjects"}
\* Program points between a successful try_lock and the matching unlock.
InGuardedRegion == {"checkObjects"}

Init ==
    /\ hasParent \in BOOLEAN
    /\ ownerHolds = TRUE
    /\ alive = TRUE
    /\ _is_listening = FALSE
    /\ _map = Null
    /\ mRssCheck = Null
    /\ _processing_lock = FALSE
    /\ subscriptions = << >>
    /\ listenCalls = 0
    /\ listenOutcome = "none"
    /\ crashed = FALSE
    /\ accessor = Null
    /\ configured = [w \in Roles |-> Null]
    /\ nextFrame = 1
    /\ delivered = Null
    /\ pc = [t \in Threads |-> "idle"]
    /\ timestamp = [t \in Threads |-> Null]
    /\ sub = [t \in Threads |-> 0]
    /\ self = [t \in Threads |-> FALSE]
    /\ acquired = [t \in Threads |-> FALSE]
    /\ unlocks = [t \in Threads |-> 0]
    /\ called = [t \in Threads |-> FALSE]
    /\ caught = [t \in Threads |-> Null]
    /\ locals = [t \in Threads |-> DefaultLocals]
    /\ data = [t \in Threads |-> Null]

\* ------------------------------------------------------- Listen and Stop

\* Lines 27-30: already listening, log and return.
ListenAlready ==
    /\ _is_listening
    /\ listenOutcome' = "already listening"
    /\ UNCHANGED <<_is_listening, _map, mRssCheck, subscriptions>>

\* Variant: the parent check is missing and Listen subscribes.
ListenNotAttachedUnchecked ==
    /\ ~_is_listening
    /\ ~hasParent
    /\ _map' = CHOOSE m \in Maps : TRUE
    /\ mRssCheck' = RssCheck(listenCalls + 1)
    /\ subscriptions' = Append(subscriptions, listenCalls + 1)
    /\ _is_listening' = TRUE
    /\ listenOutcome' = "subscribed"

\* Lines 32-35: no parent, throw std::runtime_error.
ListenNotAttached ==
    /\ ~_is_listening
    /\ ~hasParent
    /\ listenOutcome' = "not attached to vehicle"
    /\ UNCHANGED <<_is_listening, _map, mRssCheck, subscriptions>>

\* Lines 37-56: store the map, make a new RssCheck, register the closure that
\* owns the callback, set the flag.
ListenSubscribe(cb, m) ==
    /\ ~_is_listening
    /\ hasParent
    /\ _map' = m
    /\ mRssCheck' = RssCheck(cb)
    /\ subscriptions' = Append(subscriptions, cb)
    /\ _is_listening' = TRUE
    /\ listenOutcome' = "subscribed"

\* RssSensor::Listen(callback), called through the client's SharedPtr.
Listen(cb, m) ==
    /\ ownerHolds
    /\ listenCalls < MaxListens
    /\ cb = listenCalls + 1
    /\ listenCalls' = cb
    /\ \/ ListenAlready
       \/ ListenNotAttached
       \/ ListenSubscribe(cb, m)
    /\ UNCHANGED <<hasParent, ownerHolds, alive, _processing_lock, nextFrame, delivered>>
    /\ UNCHANGED dynamicsVars
    /\ UNCHANGED threadVars

\* RssSensor::Stop(): only the flag changes; nothing is unregistered.
Stop ==
    /\ ownerHolds
    /\ _is_listening
    /\ _is_listening' = FALSE
    /\ UNCHANGED <<hasParent, ownerHolds, alive, _map, mRssCheck, _processing_lock,
                   subscriptions, listenCalls, listenOutcome, nextFrame, delivered>>
    /\ UNCHANGED dynamicsVars
    /\ UNCHANGED threadVars

\* The client drops its SharedPtr.  The object goes away with the last
\* SharedPtr; ~RssSensor() is defaulted and unregisters nothing.
Release ==
    /\ ownerHolds
    /\ ownerHolds' = FALSE
    /\ alive' = \E t \in Threads : self[t]
    /\ UNCHANGED <<hasParent, _is_listening, _map, mRssCheck, _processing_lock,
                   subscriptions, listenCalls, listenOutcome, nextFrame, delivered>>
    /\ UNCHANGED dynamicsVars
    /\ UNCHANGED threadVars

\* ---------------------------------------------------- dynamics accessors

\* Line 71: checkObjects is called on *mRssCheck, which evaluates with the
\* profile it holds for the role.
EvaluationDynamics(role) ==
    IF role = "ego" THEN mRssCheck.egoVehicleDynamics ELSE mRssCheck.otherVehicleDynamics

\* What the accessors leave alone.
AccessorFrame ==
    /\ UNCHANGED <<hasParent, ownerHolds, alive, _is_listening, _map, _processing_lock,
                   subscriptions, listenCalls, listenOutcome, nextFrame, delivered>>
    /\ UNCHANGED threadVars

\* mRssCheck-> while mRssCheck is null (no Listen has subscribed yet) is
\* undefined: the process is ended by the fault, or the call comes back with
\* nothing of the sensor touched; a getter then gives whatever it found.
NullDereference(role, given) ==
    /\ mRssCheck = Null
    /\ UNCHANGED mRssCheck
    /\ \/ /\ crashed' = TRUE
          /\ accessor' = Null
          /\ UNCHANGED configured
       \/ /\ crashed' = FALSE
          /\ IF given = Null
               THEN /\ \E found \in Profiles \cup {DefaultDynamics} :
                         accessor' = [role |-> role, value |-> found]
                    /\ UNCHANGED configured
               ELSE /\ accessor' = Null
                    /\ configured' = [configured EXCEPT ![role] = given]

\* Lines 122-124.
GetEgoVehicleDynamics ==
    /\ ownerHolds
    /\ ~crashed
    /\ \/ NullDereference("ego", Null)
       \/ /\ mRssCheck # Null
          /\ accessor' = [role |-> "ego", value |-> mRssCheck.egoVehicleDynamics]
          /\ UNCHANGED <<mRssCheck, crashed, configured>>
    /\ AccessorFrame

\* Lines 126-128.
SetEgoVehicleDynamics(dynamics) ==
    /\ ownerHolds
    /\ ~crashed
    /\ \/ NullDereference("ego", dynamics)
       \/ /\ mRssCheck # Null
          /\ mRssCheck' = [mRssCheck EXCEPT !.egoVehicleDynamics = dynamics]
          /\ configured' = [configured EXCEPT !["ego"] = dynamics]
          /\ accessor' = Null
          /\ UNCHANGED crashed
    /\ AccessorFrame

\* Lines 130-132.
GetOtherVehicleDynamics ==
    /\ ownerHolds
    /\ ~crashed
    /\ \/ NullDereference("other", Null)
       \/ /\ mRssCheck # Null
          /\ accessor' = [role |-> "other", value |-> mRssCheck.otherVehicleDynamics]
          /\ UNCHANGED <<mRssCheck, crashed, configured>>
    /\ AccessorFrame

\* Lines 134-136.
SetOtherVehicleDynamics(dynamics) ==
    /\ ownerHolds
    /\ ~crashed
    /\ \/ NullDereference("other", dynamics)
       \/ /\ mRssCheck # Null
          /\ mRssCheck' = [mRssCheck EXCEPT !.otherVehicleDynamics = dynamics]
          /\ configured' = [configured EXCEPT !["other"] = dynamics]
          /\ accessor' = Null
          /\ UNCHANGED crashed
    /\ AccessorFrame

\* ------------------------------------------------------- the tick lambda

\* The tick source is done with closure i of the snapshot with timestamp ts:
\* it goes on to the next registered closure, if any.
NextClosure(t, i, ts) ==
    IF i < Len(subscriptions)
      THEN /\ sub' = [sub EXCEPT ![t] = i + 1]
           /\ pc' = [pc EXCEPT ![t] = "lambda"]
           /\ timestamp' = [timestamp EXCEPT ![t] = ts]
      ELSE /\ sub' = [sub EXCEPT ![t] = 0]
           /\ pc' = [pc EXCEPT ![t] = "idle"]
           /\ timestamp' = [timestamp EXCEPT ![t] = Null]

\* Variant: the closure does not test the locked pointer.
WeakSelfLockUnchecked == TRUE

\* Lines 47-48: weak_self.lock() yields the sensor while it exists.
WeakSelfLock == alive

\* Variant: the closure calls through a plain pointer and holds no SharedPtr.
LambdaEnterPlainPointer(t, i, ts) ==
    IF WeakSelfLock
      THEN /\ UNCHANGED self
           /\ pc' = [pc EXCEPT ![t] = "try_lock"]
           /\ sub' = [sub EXCEPT ![t] = i]
           /\ timestamp' = [timestamp EXCEPT ![t] = ts]
      ELSE /\ NextClosure(t, i, ts)
           /\ UNCHANGED self

\* Lines 46-49 for closure i: lock the weak pointer; if the sensor is gone the
\* closure is done, otherwise enter TickRssSensor (locals as on lines 61-64).
LambdaEnter(t, i, ts) ==
    IF WeakSelfLock
      THEN /\ self' = [self EXCEPT ![t] = TRUE]
           /\ pc' = [pc EXCEPT ![t] = "try_lock"]
           /\ sub' = [sub EXCEPT ![t] = i]
           /\ timestamp' = [timestamp EXCEPT ![t] = ts]
      ELSE /\ NextClosure(t, i, ts)
           /\ UNCHANGED self

\* The episode delivers the snapshot of the next frame on an idle thread, which
\* calls the registered closures in order of registration, the first one at
\* once.  Idle threads are interchangeable: the lowest one takes the snapshot.
FireTick(t) ==
    /\ pc[t] = "idle"
    /\ \A u \in Threads : pc[u] = "idle" => t <= u
    /\ nextFrame <= MaxFrame
    /\ nextFrame' = nextFrame + 1
    /\ IF subscriptions = << >>
         THEN UNCHANGED <<pc, timestamp, sub, self>>
         ELSE LambdaEnter(t, 1, TickTimestamp(nextFrame))
    /\ UNCHANGED <<alive, _processing_lock, delivered, acquired, unlocks,
                   called, caught, locals, data>>
    /\ UNCHANGED sensorVars

\* The thread calls the next closure for its snapshot.
LambdaLock(t) ==
    /\ pc[t] = "lambda"
    /\ LambdaEnter(t, sub[t], timestamp[t])
    /\ UNCHANGED <<alive, _processing_lock, nextFrame, delivered, acquired, unlocks,
                   called, caught, locals, data>>
    /\ UNCHANGED sensorVars

\* Lines 79-89.
TranslateLongitudinal(x) ==
    CASE x = "ad_rss::None" -> "None"
      [] x = "ad_rss::BrakeMinCorrect" -> "BrakeMinCorrect"
      [] x = "ad_rss::BrakeMin" -> "BrakeMin"

\* Variant: the BrakeMin case assigns None.
TranslateLateralCollapsing(x) ==
    CASE x = "ad_rss::None" -> "None"
      [] x = "ad_rss::BrakeMin" -> "None"

\* Lines 90-97 and 98-105.
TranslateLateral(x) ==
    CASE x = "ad_rss::None" -> "None"
      [] x = "ad_rss::BrakeMin" -> "BrakeMin"

\* Lines 75-105: the three switches applied to a ProperResponse.
TranslateResponse(response) ==
    [longitudinalResponse |-> TranslateLongitudinal(response.longitudinalResponse),
     lateralResponseRight |-> TranslateLateral(response.lateralResponseRight),
     lateralResponseLeft |-> TranslateLateral(response.lateralResponseLeft)]

\* Variant: the two lateral responses are passed in the wrong order.
MakeResponseSwapsLateral(ts, l) ==
    [frame |-> ts.frame,
     elapsed_seconds |-> ts.elapsed_seconds,
     success |-> l.result,
     longitudinal_response |-> TranslateLongitudinal(l.longitudinalResponse),
     lateral_response_right |-> TranslateLateral(l.lateralResponseLeft),
     lateral_response_left |-> TranslateLateral(l.lateralResponseRight),
     acceleration_restriction |-> l.accelerationRestriction,
     ego_velocity |-> l.egoVelocity]

\* Lines 106-108: the RssResponse made from the timestamp and the locals.
MakeResponse(ts, l) ==
    [frame |-> ts.frame,
     elapsed_seconds |-> ts.elapsed_seconds,
     success |-> l.result,
     longitudinal_response |-> TranslateResponse(l).longitudinalResponse,
     lateral_response_right |-> TranslateResponse(l).lateralResponseRight,
     lateral_response_left |-> TranslateResponse(l).lateralResponseLeft,
     acceleration_restriction |-> l.accelerationRestriction,
     ego_velocity |-> l.egoVelocity]

\* Lines 75-108 with the locals l: TickRssSensor returns the response.
Translate(t, l) ==
    /\ data' = [data EXCEPT ![t] = MakeResponse(timestamp[t], l)]
    /\ pc' = [pc EXCEPT ![t] = "ifdata"]

\* Variant: the evaluation is entered whether or not the mutex is free.
TryLockIgnoresHolder == TRUE

\* std::mutex::try_lock succeeds exactly when the mutex is free.
TryLockSucceeds == ~_processing_lock

\* Line 65, and lines 75-108 when the mutex is taken: the locals are as
\* declared on lines 61-64.
TryLock(t) ==
    /\ pc[t] = "try_lock"
    /\ IF TryLockSucceeds
         THEN /\ _processing_lock' = TRUE
              /\ acquired' = [acquired EXCEPT ![t] = TRUE]
              /\ pc' = [pc EXCEPT ![t] = "checkObjects"]
              /\ UNCHANGED data
         ELSE /\ Translate(t, locals[t])
              /\ UNCHANGED <<_processing_lock, acquired>>
    /\ UNCHANGED <<alive, nextFrame, delivered, timestamp, sub, self,
                   unlocks, called, caught, locals>>
    /\ UNCHANGED sensorVars

\* Variant: line 73 is missing.
UnlockMissing(t) == UNCHANGED <<_processing_lock, unlocks>>

\* Line 73.
Unlock(t) ==
    /\ _processing_lock' = FALSE
    /\ unlocks' = [unlocks EXCEPT ![t] = @ + 1]

\* Lines 66-108, checkObjects returns: result and the out-parameters hold v,
\* the mutex is unlocked, the response is made and returned.
CheckObjectsReturns(t, v) ==
    /\ pc[t] = "checkObjects"
    /\ called' = [called EXCEPT ![t] = TRUE]
    /\ locals' = [locals EXCEPT ![t] = v]
    /\ Unlock(t)
    /\ Translate(t, v)
    /\ UNCHANGED <<alive, nextFrame, delivered, timestamp, sub, self,
                   acquired, caught>>
    /\ UNCHANGED sensorVars

\* Variant: the handler matches no exception.
CatchesNothing(k) == FALSE

\* Line 109: the handler catches what derives from std::exception.
Catches(k) == k.type = "std::exception"

\* Variant: the handler returns a response made from the locals.
CatchReturnsResponse(t, k) ==
    /\ caught' = [caught EXCEPT ![t] = k]
    /\ _processing_lock' = FALSE
    /\ unlocks' = [unlocks EXCEPT ![t] = @ + 1]
    /\ Translate(t, locals[t])

\* Variant: the handler returns without unlocking.
CatchKeepsLock(t, k) ==
    /\ caught' = [caught EXCEPT ![t] = k]
    /\ UNCHANGED <<_processing_lock, unlocks>>
    /\ data' = [data EXCEPT ![t] = Null]
    /\ pc' = [pc EXCEPT ![t] = "ifdata"]

\* Lines 109-114 with the exception k.
Catch(t, k) ==
    /\ caught' = [caught EXCEPT ![t] = k]
    /\ _processing_lock' = FALSE
    /\ unlocks' = [unlocks EXCEPT ![t] = @ + 1]
    /\ data' = [data EXCEPT ![t] = Null]
    /\ pc' = [pc EXCEPT ![t] = "ifdata"]

\* Lines 66-72 and 109-114, checkObjects throws k: control leaves the try
\* block for the handler, or leaves TickRssSensor if the handler does not match.
CheckObjectsThrows(t, k) ==
    /\ pc[t] = "checkObjects"
    /\ called' = [called EXCEPT ![t] = TRUE]
    /\ IF Catches(k)
         THEN Catch(t, k)
         ELSE /\ pc' = [pc EXCEPT ![t] = "propagated"]
              /\ UNCHANGED <<_processing_lock, unlocks, caught, data>>
    /\ UNCHANGED <<alive, nextFrame, delivered, timestamp, sub, self,
                   acquired, locals>>
    /\ UNCHANGED sensorVars

\* Lines 50-54: a non-null result goes to the closure's callback; the lambda
\* returns and its SharedPtr goes away.
LambdaCallback(t) ==
    /\ pc[t] = "ifdata"
    /\ IF data[t] # Null
         THEN delivered' = [cb |-> subscriptions[sub[t]], frame |-> data[t].frame]
         ELSE UNCHANGED delivered
    /\ self' = [self EXCEPT ![t] = FALSE]
    /\ alive' = (ownerHolds \/ \E u \in Threads \ {t} : self[u])
    /\ acquired' = [acquired EXCEPT ![t] = FALSE]
    /\ unlocks' = [unlocks EXCEPT ![t] = 0]
    /\ called' = [called EXCEPT ![t] = FALSE]
    /\ caught' = [caught EXCEPT ![t] = Null]
    /\ locals' = [locals EXCEPT ![t] = DefaultLocals]
    /\ data' = [data EXCEPT ![t] = Null]
    /\ NextClosure(t, sub[t], timestamp[t])
    /\ UNCHANGED <<_processing_lock, nextFrame>>
    /\ UNCHANGED sensorVars

\* ---------------------------------------------------------- specification

Next ==
    \/ \E m \in Maps : Listen(listenCalls + 1, m)
    \/ Stop
    \/ Release
    \/ \E t \in Threads : FireTick(t)
    \/ \E t \in Threads : LambdaLock(t)
    \/ \E t \in Threads : TryLock(t)
    \/ \E t \in Threads : \E v \in Verdicts : CheckObjectsReturns(t, v)
    \/ \E t \in Threads : \E k \in FaultKinds : CheckObjectsThrows(t, k)
    \/ \E t \in Threads : LambdaCallback(t)

\* The sensor with its tick closures; the dynamics profiles stay as Listen
\* constructs them.
Spec == Init /\ [][Next]_vars

\* The call of checkObjects made by thread t comes to an end.
CheckObjectsEnds(t) ==
    \/ \E v \in Verdicts : CheckObjectsReturns(t, v)
    \/ \E k \in FaultKinds : CheckObjectsThrows(t, k)

\* The sensor, with every call of checkObjects returning or throwing in the end.
FairSpec == Spec /\ \A t \in Threads : WF_vars(CheckObjectsEnds(t))

\* The same, with the client also calling the dynamics accessors.  A process
\* ended by a fault takes no further step.
NextDynamics ==
    \/ ~crashed /\ Next
    \/ GetEgoVehicleDynamics
    \/ \E dynamics \in Profiles : SetEgoVehicleDynamics(dynamics)
    \/ GetOtherVehicleDynamics
    \/ \E dynamics \in Profiles : SetOtherVehicleDynamics(dynamics)

SpecDynamics == Init /\ [][NextDynamics]_vars

\* A listening sensor whose tick of frame f holds the mutex and is calling
\* checkObjects (the state after Listen, the tick of frame f and try_lock).
InitTranslate ==
    /\ hasParent = TRUE
    /\ ownerHolds = TRUE
    /\ alive = TRUE
    /\ _is_listening = TRUE
    /\ _map \in Maps
    /\ mRssCheck = RssCheck(1)
    /\ _processing_lock = TRUE
    /\ subscriptions = <<1>>
    /\ listenCalls = 1
    /\ listenOutcome = "subscribed"
    /\ crashed = FALSE
    /\ accessor = Null
    /\ configured = [w \in Roles |-> Null]
    /\ \E f \in 1 .. MaxFrame :
         /\ nextFrame = f + 1
         /\ timestamp = [t \in Threads |-> IF t = 1 THEN TickTimestamp(f) ELSE Null]
    /\ delivered = Null
    /\ pc = [t \in Threads |-> IF t = 1 THEN "checkObjects" ELSE "idle"]
    /\ sub = [t \in Threads |-> IF t = 1 THEN 1 ELSE 0]
    /\ self = [t \in Threads |-> t = 1]
    /\ acquired = [t \in Threads |-> t = 1]
    /\ unlocks = [t \in Threads |-> 0]
    /\ called = [t \in Threads |-> FALSE]
    /\ caught = [t \in Threads |-> Null]
    /\ locals = [t \in Threads |-> DefaultLocals]
    /\ data = [t \in Threads |-> Null]

\* checkObjects returns any verdict at all, and the response made from it goes
\* to the callback.
NextTranslate ==
    \/ \E t \in Threads : \E v \in AllVerdicts : CheckObjectsReturns(t, v)
    \/ \E t \in Threads : LambdaCallback(t)

SpecTranslate == InitTranslate /\ [][NextTranslate]_vars

Responses ==
    [frame : 1 .. MaxFrame, elapsed_seconds : Int, success : BOOLEAN,
     longitudinal_response : DataLongitudinal, lateral_response_right : DataLateral,
     lateral_response_left : DataLateral, acceleration_restriction : Int,
     ego_velocity : Int]

TypeOK ==
    /\ hasParent \in BOOLEAN /\ ownerHolds \in BOOLEAN /\ _is_listening \in BOOLEAN
    /\ alive = (ownerHolds \/ \E t \in Threads : self[t])
    /\ _map \in Maps \cup {Null}
    /\ mRssCheck \in [id : 1 .. MaxListens,
                     egoVehicleDynamics : Profiles \cup {DefaultDynamics},
                     otherVehicleDynamics : Profiles \cup {DefaultDynamics}] \cup {Null}
    /\ crashed \in BOOLEAN
    /\ configured \in [Roles -> Profiles \cup {Null}]
    /\ accessor \in [role : Roles, value : Profiles \cup {DefaultDynamics}] \cup {Null}
    /\ \A t \in Threads : pc[t] = "checkObjects" => mRssCheck # Null
    /\ _processing_lock \in BOOLEAN
    /\ subscriptions \in Seq(1 .. MaxListens)
    /\ listenCalls \in 0 .. MaxListens
    /\ listenOutcome \in {"none", "already listening", "not attached to vehicle", "subscribed"}
    /\ nextFrame \in 1 .. MaxFrame + 1
    /\ delivered = Null \/ delivered \in [cb : 1 .. MaxListens, frame : 1 .. MaxFrame]
    /\ pc \in [Threads -> {"idle", "lambda", "ifdata", "propagated"} \cup InTickRssSensor]
    /\ sub \in [Threads -> 0 .. MaxListens]
    /\ self \in [Threads -> BOOLEAN] /\ acquired \in [Threads -> BOOLEAN]
    /\ called \in [Threads -> BOOLEAN]
    /\ \A t \in Threads : caught[t] = Null \/ caught[t] \in FaultKinds
    /\ unlocks \in [Threads -> 0 .. 2]
    /\ \A t \in Threads : data[t] = Null \/ data[t] \in Responses

\* ------------------------------------------------------------ properties

\* The response of a tick that skipped the evaluation: the timestamp of the
\* tick, no success, no response asked, zero-valued quantities.
SkipResponse(ts) ==
    [frame |-> ts.frame,
     elapsed_seconds |-> ts.elapsed_seconds,
     success |-> FALSE,
     longitudinal_response |-> "None",
     lateral_response_right |-> "None",
     lateral_response_left |-> "None",
     acceleration_restriction |-> 0,
     ego_velocity |-> 0]

\* The ad_rss values and the carla::sensor::data values of the same name.
NamedAlike ==
    {<<"ad_rss::None", "None">>,
     <<"ad_rss::BrakeMinCorrect", "BrakeMinCorrect">>,
     <<"ad_rss::BrakeMin", "BrakeMin">>}

\* What the closure run by thread t passes to its callback.
CallbackInvocation(t) == [cb |-> subscriptions[sub[t]], frame |-> timestamp[t].frame]

\* C1: at most one tick handler is between a successful try_lock and the
\* matching unlock (calling checkObjects), whatever the interleaving of ticks.
SingleFlight == Cardinality({t \in Threads : pc[t] \in InGuardedRegion}) <= 1

\* One tick is calling checkObjects while another went past the busy mutex.
SingleFlightWitness ==
    \E t, u \in Threads :
        pc[t] = "checkObjects" /\ pc[u] = "ifdata" /\ ~acquired[u] /\ data[u] # Null

\* C2: once Stop has returned, a tick that arrives while the session is stopped
\* does not enter TickRssSensor.
StopEndsEvaluations ==
    [][\A t \in Threads :
          (~_is_listening /\ pc[t] = "idle") => pc'[t] \notin InTickRssSensor]_vars

\* C3: a tick that finds the mutex taken is not blocked, calls no checkObjects,
\* raises nothing, and yields the skip response with its own timestamp, which
\* its closure passes to the callback.
SkipOnBusy ==
    /\ [](\A t \in Threads :
            /\ pc[t] = "try_lock" => ENABLED TryLock(t)
            /\ (pc[t] = "ifdata" /\ ~acquired[t]) =>
                 /\ ~called[t]
                 /\ caught[t] = Null
                 /\ data[t] = SkipResponse(timestamp[t]))
    /\ [][\A t \in Threads :
            (pc[t] = "ifdata" /\ ~acquired[t] /\ pc'[t] # "ifdata") =>
                delivered' = CallbackInvocation(t)]_vars

\* Tick 2 took the skip path while tick 1 is still calling checkObjects.
SkipOnBusyWitness ==
    \E t, u \in Threads :
        /\ pc[u] = "checkObjects" /\ timestamp[u].frame = 1
        /\ pc[t] = "ifdata" /\ timestamp[t].frame = 2
        /\ data[t] = SkipResponse(TickTimestamp(2))

ReleaseOncePerAcquire ==
    \A t \in Threads :
        /\ unlocks[t] <= (IF acquired[t] THEN 1 ELSE 0)
        /\ pc[t] = "ifdata" => unlocks[t] = (IF acquired[t] THEN 1 ELSE 0)
        /\ (acquired[t] /\ unlocks[t] = 0) => _processing_lock

\* One tick left through the handler and another past the busy mutex.
ReleaseOncePerAcquireWitness ==
    \E t, u \in Threads :
        /\ pc[t] = "ifdata" /\ acquired[t] /\ caught[t] # Null /\ unlocks[t] = 1
        /\ pc[u] = "ifdata" /\ ~acquired[u] /\ unlocks[u] = 0

\* C7: once the sensor is destroyed, a tick that reaches a registered closure
\* neither enters TickRssSensor nor invokes a callback nor raises anything,
\* with or without a call of Stop.
DestroyedSensorNoOp ==
    /\ [](~alive => \A t \in Threads : pc[t] \in {"idle", "lambda"})
    /\ [][~alive => /\ delivered' = delivered
                    /\ ~alive'
                    /\ \A t \in Threads : ~self'[t]]_vars

\* The sensor is destroyed without Stop and a closure is about to run.
DestroyedSensorNoOpWitness ==
    ~alive /\ _is_listening /\ \E t \in Threads : pc[t] = "lambda"

\* C8: after a call of Listen that found the session listening, the session is
\* listening with exactly one registered closure.
ListenTwiceOneSubscription ==
    (_is_listening /\ listenOutcome = "already listening") => Len(subscriptions) = 1

\* C9: on a sensor without parent, Listen throws and leaves no closure
\* registered, the flag false, and neither map nor RssCheck stored.
ListenNotAttachedLeavesIdle ==
    ~hasParent =>
        /\ ~_is_listening
        /\ subscriptions = << >>
        /\ _map = Null
        /\ mRssCheck = Null
        /\ listenCalls > 0 => listenOutcome = "not attached to vehicle"

\* Listen has thrown on a sensor without parent, and a tick has passed.
ListenNotAttachedWitness ==
    ~hasParent /\ listenOutcome = "not attached to vehicle" /\ nextFrame > 1

\* C10: every response handed to a callback comes from a checkObjects call made
\* for that tick that returned.
ResponseOnlyFromVerdict ==
    \A t \in Threads :
        (pc[t] = "ifdata" /\ data[t] # Null) => (called[t] /\ caught[t] = Null)

\* C10 as amended: every response handed to a callback comes either from a
\* checkObjects call made for that tick that returned, or, when the tick found
\* the mutex taken, from the default-constructed locals without any call; none
\* comes from a call that threw.
ResponseFromVerdictOrSkip ==
    \A t \in Threads :
        (pc[t] = "ifdata" /\ data[t] # Null) =>
            /\ caught[t] = Null
            /\ \/ /\ acquired[t] /\ called[t]
                  /\ locals[t] \in Verdicts
                  /\ data[t] = MakeResponse(timestamp[t], locals[t])
               \/ /\ ~acquired[t] /\ ~called[t]
                  /\ locals[t] = DefaultLocals
                  /\ data[t] = MakeResponse(timestamp[t], DefaultLocals)

\* Both kinds of response are about to be handed over.
ResponseFromVerdictOrSkipWitness ==
    \E t, u \in Threads :
        /\ pc[t] = "ifdata" /\ called[t] /\ data[t] # Null
        /\ pc[u] = "ifdata" /\ ~called[u] /\ data[u] # Null

\* C11: the dynamics accessors can be called in every session state, before the
\* first Listen as well as while listening, without a fault, and the profile a
\* setter was given is the one the RssCheck holds for the next checkObjects.
AccessorsSafeInEveryState ==
    /\ [](~crashed)
    /\ [][\A role \in Roles :
            configured'[role] # configured[role] =>
                /\ mRssCheck' # Null
                /\ EvaluationDynamics(role)' = configured'[role]]_vars

\* C12: a call of Listen that subscribes leaves the RssCheck holding, for each
\* role, the profile most recently passed to a setter before it, and a getter
\* called once a RssCheck exists returns the profile most recently set.
ListenKeepsConfiguredDynamics ==
    [][\A role \in Roles :
          configured[role] # Null =>
              /\ (listenCalls' # listenCalls /\ listenOutcome' = "subscribed") =>
                     EvaluationDynamics(role)' = configured[role]
              /\ (mRssCheck # Null /\ accessor' # accessor /\ accessor' # Null
                     /\ accessor'.role = role) =>
                     accessor'.value = configured[role]]_vars

\* The 3 x 2 x 2 values of a ProperResponse.
ProperResponses ==
    [longitudinalResponse : RssLongitudinal, lateralResponseRight : RssLateral,
     lateralResponseLeft : RssLateral]

\* C13: the translation is defined for each of the 12 combinations of
\* longitudinal, lateral-right and lateral-left response, gives the combination
\* of the same names, and gives different outputs for different inputs.
TranslationTotalInjective ==
    /\ \A t \in Threads :
          (pc[t] = "ifdata" /\ called[t] /\ caught[t] = Null) =>
              /\ data[t] \in Responses
              /\ <<locals[t].longitudinalResponse, data[t].longitudinal_response>>
                     \in NamedAlike
              /\ <<locals[t].lateralResponseRight, data[t].lateral_response_right>>
                     \in NamedAlike
              /\ <<locals[t].lateralResponseLeft, data[t].lateral_response_left>>
                     \in NamedAlike
    /\ Cardinality(ProperResponses) = 12
    /\ \A a, b \in ProperResponses :
          TranslateResponse(a) = TranslateResponse(b) => a = b

\* The response of a verdict whose three responses all differ from the default
\* and from each other in position is about to go to the callback.
TranslationWitness ==
    \E t \in Threads :
        /\ pc[t] = "ifdata" /\ called[t]
        /\ locals[t].longitudinalResponse = "ad_rss::BrakeMinCorrect"
        /\ locals[t].lateralResponseRight = "ad_rss::BrakeMin"
        /\ locals[t].lateralResponseLeft = "ad_rss::None"
        /\ data[t].longitudinal_response = "BrakeMinCorrect"
        /\ data[t].lateral_response_right = "BrakeMin"
        /\ data[t].lateral_response_left = "None"

\* No tick is between a successful try_lock and the matching unlock.
NoEvaluationInFlight == \A u \in Threads : pc[u] \notin InGuardedRegion

InHandler == {"try_lock", "checkObjects", "ifdata", "propagated"}

\* C15: the registered closures hold no owning reference.  The sensor exists
\* exactly as long as the client or a running handler holds a SharedPtr,
\* however many closures are registered; a handler holds one from its
\* weak_self.lock() to its return and at no other time, so the sensor exists
\* throughout every call of TickRssSensor.
SubscriptionHoldsNoReference ==
    /\ alive <=> (ownerHolds \/ \E t \in Threads : self[t])
    /\ \A t \in Threads : self[t] <=> pc[t] \in InHandler
    /\ \A t \in Threads : pc[t] \in InTickRssSensor => alive

\* The client gave up the sensor while a handler ran; with the handler's
\* return the sensor went away, two closures still being registered, and the
\* tick source is about to call the second.
SubscriptionHoldsNoReferenceWitness ==
    /\ ~alive
    /\ Len(subscriptions) >= 2
    /\ \E t \in Threads : pc[t] = "lambda" /\ sub[t] = 2

\* C16: a callback is given responses in the order of their ticks: each
\* invocation carries a higher frame than the one before, also when a later
\* tick takes the skip path while the evaluation of an earlier one is running.
CallbackFramesIncrease ==
    [][(delivered # Null /\ delivered' # delivered /\ delivered'.cb = delivered.cb) =>
           delivered'.frame > delivered.frame]_vars

\* C17: whatever calls of Listen and Stop were made, at most one closure is
\* registered on the tick event, so that a tick runs at most one closure (one
\* call of TickRssSensor, one invocation of a callback), and the callback that
\* is invoked is the one of the latest session, never one of a stopped session.
AtMostOneSubscription ==
    /\ [](/\ Len(subscriptions) <= 1
          /\ \A t \in Threads : sub[t] <= 1)
    /\ [][delivered' # delivered =>
            delivered'.cb = subscriptions[Len(subscriptions)]]_vars

\* C18: the mutex is never left locked.  With every call of checkObjects
\* coming to an end, each successful try_lock is followed in the end by the
\* tick's unlock, on the returning as on the throwing path, and whenever no
\* tick handler is running the mutex is free.
GuardNeverLeftHeld ==
    /\ \A t \in Threads :
          (pc[t] = "checkObjects") ~> (pc[t] = "ifdata" /\ unlocks[t] = 1)
    /\ []((\A t \in Threads : pc[t] \notin InHandler) => ~_processing_lock)

\* A tick left through the handler, having unlocked, and a later tick has
\* taken the mutex again.
GuardNeverLeftHeldWitness ==
    \E t, u \in Threads :
        /\ pc[t] = "ifdata" /\ acquired[t] /\ caught[t] # Null /\ unlocks[t] = 1
        /\ pc[u] = "checkObjects" /\ timestamp[u].frame > timestamp[t].frame

====
